---- MODULE Spec2Model ----
(***************************************************************************)
(* Model of src/app.py: the section generation / validation loop of the    *)
(* business plan generator, its two pure helpers (validate_section and     *)
(* create_feedback_prompt), the wrapper around the text-generation service *)
(* (get_section_from_llm) and the top-level script (main).                 *)
(*                                                                         *)
(* Python str values are modelled as sequences of one-character strings,   *)
(* Python dicts as insertion-ordered sequences of [key, value] records.    *)
(***************************************************************************)
EXTENDS Integers, Sequences, FiniteSets, TLC

\* ------------------------------------------------------------------------
\* String literals of src/app.py, as character sequences
\* ------------------------------------------------------------------------

\* 'ABCDEFGHIJKLMNOPQRSTUVWXYZ'
UpperLetters ==
    <<"A","B","C","D","E","F","G","H","I","J","K","L","M","N","O","P","Q","R","S","T","U","V","W","X","Y","Z">>

\* 'abcdefghijklmnopqrstuvwxyz'
LowerLetters ==
    <<"a","b","c","d","e","f","g","h","i","j","k","l","m","n","o","p","q","r","s","t","u","v","w","x","y","z">>

\* ' \t\n\r\x0c'
Whitespace ==
    <<" ","\t","\n","\r","\f">>

\* 'Executive Summary'
Name1 ==
    <<"E","x","e","c","u","t","i","v","e"," ","S","u","m","m","a","r","y">>

\* 'business concept'
Crit1_1 ==
    <<"b","u","s","i","n","e","s","s"," ","c","o","n","c","e","p","t">>

\* 'financial features'
Crit1_2 ==
    <<"f","i","n","a","n","c","i","a","l"," ","f","e","a","t","u","r","e","s">>

\* 'financial requirements'
Crit1_3 ==
    <<"f","i","n","a","n","c","i","a","l"," ","r","e","q","u","i","r","e","m","e","n","t","s">>

\* 'Company Description'
Name2 ==
    <<"C","o","m","p","a","n","y"," ","D","e","s","c","r","i","p","t","i","o","n">>

\* 'company goals'
Crit2_1 ==
    <<"c","o","m","p","a","n","y"," ","g","o","a","l","s">>

\* 'target market'
Crit2_2 ==
    <<"t","a","r","g","e","t"," ","m","a","r","k","e","t">>

\* 'competitive advantage'
Crit2_3 ==
    <<"c","o","m","p","e","t","i","t","i","v","e"," ","a","d","v","a","n","t","a","g","e">>

\* 'Market Analysis'
Name3 ==
    <<"M","a","r","k","e","t"," ","A","n","a","l","y","s","i","s">>

\* 'industry description'
Crit3_1 ==
    <<"i","n","d","u","s","t","r","y"," ","d","e","s","c","r","i","p","t","i","o","n">>

\* 'target market'
Crit3_2 ==
    <<"t","a","r","g","e","t"," ","m","a","r","k","e","t">>

\* 'market test results'
Crit3_3 ==
    <<"m","a","r","k","e","t"," ","t","e","s","t"," ","r","e","s","u","l","t","s">>

\* 'Organization & Management'
Name4 ==
    <<"O","r","g","a","n","i","z","a","t","i","o","n"," ","&"," ","M","a","n","a","g","e","m","e","n","t">>

\* 'organizational structure'
Crit4_1 ==
    <<"o","r","g","a","n","i","z","a","t","i","o","n","a","l"," ","s","t","r","u","c","t","u","r","e">>

\* 'management team'
Crit4_2 ==
    <<"m","a","n","a","g","e","m","e","n","t"," ","t","e","a","m">>

\* 'board of advisors'
Crit4_3 ==
    <<"b","o","a","r","d"," ","o","f"," ","a","d","v","i","s","o","r","s">>

\* 'Product Line'
Name5 ==
    <<"P","r","o","d","u","c","t"," ","L","i","n","e">>

\* 'product description'
Crit5_1 ==
    <<"p","r","o","d","u","c","t"," ","d","e","s","c","r","i","p","t","i","o","n">>

\* 'competitive comparison'
Crit5_2 ==
    <<"c","o","m","p","e","t","i","t","i","v","e"," ","c","o","m","p","a","r","i","s","o","n">>

\* 'sales literature'
Crit5_3 ==
    <<"s","a","l","e","s"," ","l","i","t","e","r","a","t","u","r","e">>

\* 'Marketing & Sales'
Name6 ==
    <<"M","a","r","k","e","t","i","n","g"," ","&"," ","S","a","l","e","s">>

\* 'marketing strategy'
Crit6_1 ==
    <<"m","a","r","k","e","t","i","n","g"," ","s","t","r","a","t","e","g","y">>

\* 'sales force'
Crit6_2 ==
    <<"s","a","l","e","s"," ","f","o","r","c","e">>

\* 'sales activities'
Crit6_3 ==
    <<"s","a","l","e","s"," ","a","c","t","i","v","i","t","i","e","s">>

\* 'Funding Request'
Name7 ==
    <<"F","u","n","d","i","n","g"," ","R","e","q","u","e","s","t">>

\* 'current funding requirement'
Crit7_1 ==
    <<"c","u","r","r","e","n","t"," ","f","u","n","d","i","n","g"," ","r","e","q","u","i","r","e","m","e","n","t">>

\* 'future funding requirements'
Crit7_2 ==
    <<"f","u","t","u","r","e"," ","f","u","n","d","i","n","g"," ","r","e","q","u","i","r","e","m","e","n","t","s">>

\* 'use of funds'
Crit7_3 ==
    <<"u","s","e"," ","o","f"," ","f","u","n","d","s">>

\* 'Financial Projections'
Name8 ==
    <<"F","i","n","a","n","c","i","a","l"," ","P","r","o","j","e","c","t","i","o","n","s">>

\* 'income statements'
Crit8_1 ==
    <<"i","n","c","o","m","e"," ","s","t","a","t","e","m","e","n","t","s">>

\* 'cash flow statements'
Crit8_2 ==
    <<"c","a","s","h"," ","f","l","o","w"," ","s","t","a","t","e","m","e","n","t","s">>

\* 'balance sheets'
Crit8_3 ==
    <<"b","a","l","a","n","c","e"," ","s","h","e","e","t","s">>

\* 'Write a '
InitialPromptHead ==
    <<"W","r","i","t","e"," ","a"," ">>

\* ' section for a business plan. Include information about: '
InitialPromptMid ==
    <<" ","s","e","c","t","i","o","n"," ","f","o","r"," ","a"," ","b","u","s","i","n","e","s","s"," ","p","l","a","n","."," ","I","n","c","l","u","d","e"," ","i","n","f","o","r","m","a","t","i","o","n"," ","a","b","o","u","t",":"," ">>

\* '.'
InitialPromptTail ==
    <<".">>

\* ', '
CommaSpace ==
    <<","," ">>

\* '\nThe current '
FeedbackHead ==
    <<"\n","T","h","e"," ","c","u","r","r","e","n","t"," ">>

\* ' section needs improvement:\nMissing criteria: '
FeedbackMissing ==
    <<" ","s","e","c","t","i","o","n"," ","n","e","e","d","s"," ","i","m","p","r","o","v","e","m","e","n","t",":","\n","M","i","s","s","i","n","g"," ","c","r","i","t","e","r","i","a",":"," ">>

\* '\n\nCurrent section:\n'
FeedbackCurrent ==
    <<"\n","\n","C","u","r","r","e","n","t"," ","s","e","c","t","i","o","n",":","\n">>

\* '\n\nPlease revise the '
FeedbackRevise ==
    <<"\n","\n","P","l","e","a","s","e"," ","r","e","v","i","s","e"," ","t","h","e"," ">>

\* ' section to address these missing points. \nProvide only the revised section without any explanations.\n'
FeedbackTail ==
    <<" ","s","e","c","t","i","o","n"," ","t","o"," ","a","d","d","r","e","s","s"," ","t","h","e","s","e"," ","m","i","s","s","i","n","g"," ","p","o","i","n","t","s","."," ","\n","P","r","o","v","i","d","e"," ","o","n","l","y"," ","t","h","e"," ","r","e","v","i","s","e","d"," ","s","e","c","t","i","o","n"," ","w","i","t","h","o","u","t"," ","a","n","y"," ","e","x","p","l","a","n","a","t","i","o","n","s",".","\n">>

\* 'The section meets all criteria.'
MeetsAllCriteria ==
    <<"T","h","e"," ","s","e","c","t","i","o","n"," ","m","e","e","t","s"," ","a","l","l"," ","c","r","i","t","e","r","i","a",".">>

\* 'Missing criteria: '
MissingMarker ==
    <<"M","i","s","s","i","n","g"," ","c","r","i","t","e","r","i","a",":"," ">>

\* '\n'
Newline ==
    <<"\n">>

\* the sections dict of generate_business_plan, in insertion order
sections ==
    << [key |-> Name1, value |-> <<Crit1_1, Crit1_2, Crit1_3>>],
       [key |-> Name2, value |-> <<Crit2_1, Crit2_2, Crit2_3>>],
       [key |-> Name3, value |-> <<Crit3_1, Crit3_2, Crit3_3>>],
       [key |-> Name4, value |-> <<Crit4_1, Crit4_2, Crit4_3>>],
       [key |-> Name5, value |-> <<Crit5_1, Crit5_2, Crit5_3>>],
       [key |-> Name6, value |-> <<Crit6_1, Crit6_2, Crit6_3>>],
       [key |-> Name7, value |-> <<Crit7_1, Crit7_2, Crit7_3>>],
       [key |-> Name8, value |-> <<Crit8_1, Crit8_2, Crit8_3>>] >>

\* ------------------------------------------------------------------------
\* Python built-ins used by the code
\* ------------------------------------------------------------------------

\* str.lower() on one character
LowerChar(c) ==
    IF \E k \in 1..Len(UpperLetters) : UpperLetters[k] = c
    THEN LowerLetters[CHOOSE k \in 1..Len(UpperLetters) : UpperLetters[k] = c]
    ELSE c

\* str.lower()
lower(s) ==
    IF s = <<>> THEN <<>> ELSE [k \in 1..Len(s) |-> LowerChar(s[k])]

\* the `sub in s` operator on str
contains(sub, s) ==
    \E p \in 0..(Len(s) - Len(sub)) : SubSeq(s, p + 1, p + Len(sub)) = sub

\* str.isspace() on one character
IsSpace(c) ==
    \E k \in 1..Len(Whitespace) : Whitespace[k] = c

\* str.strip()
strip(s) ==
    LET keep == {k \in 1..Len(s) : ~IsSpace(s[k])}
    IN  IF keep = {} THEN <<>>
        ELSE SubSeq(s, CHOOSE a \in keep : \A b \in keep : a <= b,
                       CHOOSE a \in keep : \A b \in keep : a >= b)

\* sep.join(xs)
RECURSIVE join(_, _)
join(sep, xs) ==
    IF xs = <<>> THEN <<>>
    ELSE IF Len(xs) = 1 THEN xs[1]
    ELSE xs[1] \o sep \o join(sep, Tail(xs))

\* bool(s) for a str
Truthy(s) ==
    Len(s) > 0

\* k in d
DictHas(d, k) ==
    \E n \in 1..Len(d) : d[n].key = k

\* d[k]
DictGet(d, k) ==
    d[CHOOSE n \in 1..Len(d) : d[n].key = k].value

DictSet_prepend(d, k, v) ==
    << [key |-> k, value |-> v] >> \o d

\* d[k] = v : an existing key keeps its position, a new key goes last
DictSet(d, k, v) ==
    IF DictHas(d, k)
    THEN [n \in 1..Len(d) |-> IF d[n].key = k THEN [key |-> k, value |-> v] ELSE d[n]]
    ELSE Append(d, [key |-> k, value |-> v])

\* list(d.keys())
DictKeys(d) ==
    IF d = <<>> THEN <<>> ELSE [n \in 1..Len(d) |-> d[n].key]

\* ------------------------------------------------------------------------
\* validate_section
\* ------------------------------------------------------------------------

criterion_in_section_nolower(criterion, section) ==
    contains(lower(criterion), section)

\* criterion.lower() in section.lower()
criterion_in_section(criterion, section) ==
    contains(lower(criterion), lower(section))

\* {criterion: ... for criterion in criteria}
RECURSIVE validation_of(_, _, _)
validation_of(section, crits, acc) ==
    IF crits = <<>> THEN acc
    ELSE validation_of(section, Tail(crits),
                       DictSet(acc, Head(crits), criterion_in_section(Head(crits), section)))

validate_section(section, crits) ==
    LET validation == validation_of(section, crits, <<>>)
    IN  [is_valid |-> \A n \in 1..Len(validation) : validation[n].value,
         feedback |-> IF validation = <<>> THEN <<>>
                      ELSE [n \in 1..Len(validation) |->
                              [key   |-> validation[n].key,
                               value |-> IF validation[n].value THEN "Present" ELSE "Missing"]]]

\* ------------------------------------------------------------------------
\* create_feedback_prompt
\* ------------------------------------------------------------------------

IsMissing(e) ==
    e.value = "Missing"

IsPresent(e) ==
    e.value = "Present"

missing_criteria_present(validation_result) ==
    DictKeys(SelectSeq(validation_result.feedback, IsPresent))

\* [k for k, v in validation_result["feedback"].items() if v == "Missing"]
missing_criteria(validation_result) ==
    DictKeys(SelectSeq(validation_result.feedback, IsMissing))

create_feedback_prompt(name, validation_result, section) ==
    IF ~validation_result.is_valid
    THEN FeedbackHead \o name \o FeedbackMissing
         \o join(CommaSpace, missing_criteria(validation_result))
         \o FeedbackCurrent \o section
         \o FeedbackRevise \o name \o FeedbackTail
    ELSE MeetsAllCriteria

\* ------------------------------------------------------------------------
\* get_section_from_llm
\* ------------------------------------------------------------------------

\* str.upper() on one character, used to build service responses only
UpperChar(c) ==
    IF \E k \in 1..Len(LowerLetters) : LowerLetters[k] = c
    THEN UpperLetters[CHOOSE k \in 1..Len(LowerLetters) : LowerLetters[k] = c]
    ELSE c

\* What openai.ChatCompletion.create can do on one call: raise, or return a
\* message content.  The contents offered are built from the criteria of the
\* section being written: one naming every criterion (in upper case and
\* padded with whitespace) and one naming all but the last criterion.
ServiceOutcomes(crits) ==
    { [raises |-> TRUE,  content |-> <<>>],
      [raises |-> FALSE,
       content |-> <<" ">> \o [k \in 1..Len(join(CommaSpace, crits)) |->
                                  UpperChar(join(CommaSpace, crits)[k])] \o <<".", "\n">>],
      [raises |-> FALSE,
       content |-> join(CommaSpace, SubSeq(crits, 1, Len(crits) - 1)) \o <<".">>] }

get_section_from_llm_errtext(key, user_prompt, outcome) ==
    IF outcome.raises THEN <<"E", "r", "r", "o", "r">> ELSE strip(outcome.content)

\* the result of the call: "" when the service raised, else the stripped content

get_section_from_llm(key, user_prompt, outcome) ==
    IF outcome.raises THEN <<>> ELSE strip(outcome.content)

\* ------------------------------------------------------------------------
\* generate_business_plan and main
\* ------------------------------------------------------------------------

max_iterations_more ==
    3 + 1

max_iterations_less ==
    3 - 1

max_iterations ==
    3

total_sections ==
    Len(sections)

section_at_stuck(n) ==
    sections[IF n > 1 THEN n ELSE 1]

\* the n-th (0-based) item of enumerate(sections.items())
section_at(n) ==
    sections[n + 1]

\* character equality up to the case of an ASCII letter
SameLetter(a, b) ==
    \/ a = b
    \/ \E n \in 1..Len(UpperLetters) :
          {a, b} = {UpperLetters[n], LowerLetters[n]}

\* the phrase occurs in the text, ignoring case
OccursIgnoringCase(phrase, text) ==
    \E p \in 0..(Len(text) - Len(phrase)) :
       \A k \in 1..Len(phrase) : SameLetter(phrase[k], text[p + k])

\* the text names every criterion of the list
Satisfies(text, crits) ==
    \A n \in 1..Len(crits) : OccursIgnoringCase(crits[n], text)

initial_prompt(name, crits) ==
    InitialPromptHead \o name \o InitialPromptMid \o join(CommaSpace, crits) \o InitialPromptTail

NoValidation ==
    [is_valid |-> FALSE, feedback |-> <<>>]

Status(kind, name, iteration) ==
    [kind |-> kind, section |-> name, iteration |-> iteration]

NoStatus ==
    Status("", <<>>, 0)

ApiKeys ==
    { <<>>, <<"s", "k">> }

VARIABLES
    api_key,            \* main: value of the password text input
    pc,                 \* position of the script
    i,                  \* generate_business_plan: index of enumerate(sections)
    section_name,       \* generate_business_plan: loop variable
    criteria,           \* generate_business_plan: loop variable
    current_section,    \* generate_business_plan: current draft
    j,                  \* generate_business_plan: inner loop index
    validation_result,  \* generate_business_plan: last validation result
    prompt,             \* last prompt sent / about to be sent to the service
    business_plan,      \* generate_business_plan: the accumulating dict
    status_text,        \* last text written to the status line
    progress_bar,       \* last value given to the progress bar, <<num, den>>
    st_warning,         \* main: the credential warning is shown
    st_success,         \* main: the success banner is shown
    last_raised,        \* history: the last service call raised (st.error shown)
    all_failed,         \* history: every service call of this run raised
    calls,              \* history: service calls made for the current section
    validated,          \* history: current_section has been validated
    returned,           \* history: text returned by the latest service call
    none_satisfied,     \* history: no text returned for the section satisfied its criteria
    emitted             \* history: terminal statuses emitted for the section

vars ==
    << api_key, pc, i, section_name, criteria, current_section, j,
       validation_result, prompt, business_plan, status_text, progress_bar,
       st_warning, st_success, last_raised, all_failed, calls, validated, returned,
       none_satisfied, emitted >>

loop_vars ==
    << i, section_name, criteria, current_section, j, validation_result,
       prompt, business_plan, status_text, progress_bar >>

history_vars ==
    << last_raised, all_failed, calls, validated, returned, none_satisfied, emitted >>

Init ==
    /\ api_key = <<>>
    /\ pc = "idle"
    /\ i = 0
    /\ section_name = <<>>
    /\ criteria = <<>>
    /\ current_section = <<>>
    /\ j = 0
    /\ validation_result = NoValidation
    /\ prompt = <<>>
    /\ business_plan = <<>>
    /\ status_text = NoStatus
    /\ progress_bar = <<0, 1>>
    /\ st_warning = FALSE
    /\ st_success = FALSE
    /\ last_raised = FALSE
    /\ all_failed = TRUE
    /\ calls = 0
    /\ validated = FALSE
    /\ returned = <<>>
    /\ none_satisfied = TRUE
    /\ emitted = <<>>

\* The locals of a fresh script run
FreshRun ==
    /\ i' = 0
    /\ section_name' = <<>>
    /\ criteria' = <<>>
    /\ current_section' = <<>>
    /\ j' = 0
    /\ validation_result' = NoValidation
    /\ prompt' = <<>>
    /\ business_plan' = <<>>
    /\ status_text' = NoStatus
    /\ progress_bar' = <<0, 1>>
    /\ st_success' = FALSE
    /\ last_raised' = FALSE
    /\ all_failed' = TRUE
    /\ calls' = 0
    /\ validated' = FALSE
    /\ returned' = <<>>
    /\ none_satisfied' = TRUE
    /\ emitted' = <<>>

GenerateAvailable_always(key) ==
    TRUE

\* `if api_key:` guarding the button
GenerateAvailable(key) ==
    Truthy(key)

\* main, up to the call of generate_business_plan: one run of the script with
\* the text input holding `key` and the button (when rendered) clicked or not
Main(key, clicked) ==
    /\ pc \in {"idle", "done"}
    /\ api_key' = key
    /\ FreshRun
    /\ IF GenerateAvailable(key)
       THEN /\ st_warning' = FALSE
            /\ pc' = IF clicked THEN "section" ELSE "idle"
       ELSE /\ st_warning' = TRUE
            /\ pc' = "idle"

\* for-loop head of generate_business_plan, body up to the initial call
Draft ==
    /\ pc = "section"
    /\ i < total_sections
    /\ \E outcome \in ServiceOutcomes(section_at(i).value) :
         /\ section_name' = section_at(i).key
         /\ criteria' = section_at(i).value
         /\ status_text' = Status("Generating", section_at(i).key, 0)
         /\ progress_bar' = <<i + 1, total_sections>>
         /\ prompt' = initial_prompt(section_at(i).key, section_at(i).value)
         /\ current_section' = get_section_from_llm(api_key, prompt', outcome)
         /\ returned' = get_section_from_llm(api_key, prompt', outcome)
         /\ none_satisfied' = ~Satisfies(returned', section_at(i).value)
         /\ last_raised' = outcome.raises
         /\ all_failed' = (all_failed /\ outcome.raises)
    /\ j' = 0
    /\ calls' = 1
    /\ validated' = FALSE
    /\ emitted' = <<>>
    /\ pc' = IF 0 < max_iterations THEN "validate" ELSE "exhausted"
    /\ UNCHANGED << api_key, i, validation_result, business_plan, st_warning, st_success >>

\* inner loop body up to the break or up to the built feedback prompt
Validate ==
    /\ pc = "validate"
    /\ validation_result' = validate_section(current_section, criteria)
    /\ validated' = TRUE
    /\ IF validation_result'.is_valid
       THEN /\ status_text' = Status("meets", section_name, 0)
            /\ emitted' = Append(emitted, "meets")
            /\ prompt' = prompt
            /\ pc' = "store"
       ELSE /\ status_text' = Status("Improving", section_name, j + 1)
            /\ emitted' = emitted
            /\ prompt' = create_feedback_prompt(section_name, validation_result', current_section)
            /\ pc' = "regenerate"
    /\ UNCHANGED << api_key, i, section_name, criteria, current_section, j,
                    business_plan, progress_bar, st_warning, st_success,
                    last_raised, all_failed, calls, returned, none_satisfied >>

\* the corrective call and the step of the inner loop
Regenerate ==
    /\ pc = "regenerate"
    /\ \E outcome \in ServiceOutcomes(criteria) :
         /\ current_section' = get_section_from_llm(api_key, prompt, outcome)
         /\ returned' = get_section_from_llm(api_key, prompt, outcome)
         /\ none_satisfied' = (none_satisfied /\ ~Satisfies(returned', criteria))
         /\ last_raised' = outcome.raises
         /\ all_failed' = (all_failed /\ outcome.raises)
    /\ calls' = calls + 1
    /\ validated' = FALSE
    /\ j' = j + 1
    /\ pc' = IF j + 1 < max_iterations THEN "validate" ELSE "exhausted"
    /\ UNCHANGED << api_key, i, section_name, criteria, validation_result, prompt,
                    business_plan, status_text, progress_bar, st_warning,
                    st_success, emitted >>

\* the else branch of the inner loop
Exhausted ==
    /\ pc = "exhausted"
    /\ status_text' = Status("Warning", section_name, max_iterations)
    /\ emitted' = Append(emitted, "Warning")
    /\ pc' = "store"
    /\ UNCHANGED << api_key, i, section_name, criteria, current_section, j,
                    validation_result, prompt, business_plan, progress_bar,
                    st_warning, st_success, last_raised, all_failed, calls, validated,
                    returned, none_satisfied >>

\* business_plan[section_name] = current_section, and on to the next section
Store ==
    /\ pc = "store"
    /\ business_plan' = DictSet(business_plan, section_name, current_section)
    /\ i' = i + 1
    /\ pc' = "section"
    /\ UNCHANGED << api_key, section_name, criteria, current_section, j,
                    validation_result, prompt, status_text, progress_bar,
                    st_warning, st_success, history_vars >>

\* return business_plan
Return ==
    /\ pc = "section"
    /\ i >= total_sections
    /\ pc' = "returned"
    /\ UNCHANGED << api_key, loop_vars, st_warning, st_success, history_vars >>

\* main after the call: success banner, expanders, download button
Display ==
    /\ pc = "returned"
    /\ st_success' = TRUE
    /\ pc' = "done"
    /\ UNCHANGED << api_key, loop_vars, st_warning, history_vars >>

Next ==
    \/ \E key \in ApiKeys, clicked \in BOOLEAN : Main(key, clicked)
    \/ Draft
    \/ Validate
    \/ Regenerate
    \/ Exhausted
    \/ Store
    \/ Return
    \/ Display

Spec ==
    Init /\ [][Next]_vars

\* ------------------------------------------------------------------------
\* The two pure helpers on their own: validate_section applied to a bounded
\* text and criteria list, then create_feedback_prompt applied to its result
\* ------------------------------------------------------------------------

MaxLen ==
    3

MaxCriteria ==
    3

PureAlphabet ==
    {"a", "A", "b", "B"}

PurePhrases ==
    { <<"a">>, <<"a", "b">>, <<"B">> }

PureNames ==
    { <<"S">> }

SeqsUpTo(S, n) ==
    UNION { [1..m -> S] : m \in 0..n }

PureInit ==
    /\ pc = "pure"
    /\ section_name \in PureNames
    /\ criteria \in SeqsUpTo(PurePhrases, MaxCriteria)
    /\ current_section \in SeqsUpTo(PureAlphabet, MaxLen)
    /\ api_key = <<>>
    /\ i = 0
    /\ j = 0
    /\ validation_result = NoValidation
    /\ prompt = <<>>
    /\ business_plan = <<>>
    /\ status_text = NoStatus
    /\ progress_bar = <<0, 1>>
    /\ st_warning = FALSE
    /\ st_success = FALSE
    /\ last_raised = FALSE
    /\ all_failed = TRUE
    /\ calls = 0
    /\ validated = FALSE
    /\ returned = <<>>
    /\ none_satisfied = TRUE
    /\ emitted = <<>>

PureValidate ==
    /\ pc = "pure"
    /\ validation_result' = validate_section(current_section, criteria)
    /\ pc' = "pure_validated"
    /\ UNCHANGED << api_key, i, section_name, criteria, current_section, j, prompt,
                    business_plan, status_text, progress_bar, st_warning,
                    st_success, history_vars >>

PureFeedback ==
    /\ pc = "pure_validated"
    /\ prompt' = create_feedback_prompt(section_name, validation_result, current_section)
    /\ pc' = "pure_prompted"
    /\ UNCHANGED << api_key, i, section_name, criteria, current_section, j,
                    validation_result, business_plan, status_text, progress_bar,
                    st_warning, st_success, history_vars >>

PureNext ==
    \/ PureValidate
    \/ PureFeedback

PureSpec ==
    PureInit /\ [][PureNext]_vars

\* ------------------------------------------------------------------------
\* Properties
\* ------------------------------------------------------------------------

\* the 8 section names in their fixed order
SectionNames ==
    << Name1, Name2, Name3, Name4, Name5, Name6, Name7, Name8 >>

\* validation has just reported is_valid = true for the current text
ValidSeen ==
    /\ validated
    /\ validation_result.is_valid
    /\ pc \in {"store", "section", "returned", "done"}

\* C1: per section the service is called at most 4 times; once validation
\* reports is_valid = true for the current text no further call is made for
\* that section and that exact text is what the plan stores for it; an initial
\* draft naming every criterion costs exactly one call.
C1_AtMostFourCallsStopOnValid ==
    [][ /\ calls' <= 4
        /\ ValidSeen => (calls' = calls \/ section_name' # section_name)
        /\ (ValidSeen /\ pc = "store") =>
              /\ DictHas(business_plan', section_name)
              /\ DictGet(business_plan', section_name) = returned
              /\ current_section = returned
        /\ (pc = "validate" /\ calls = 1 /\ Satisfies(returned, criteria)) =>
              /\ validation_result'.is_valid
              /\ pc' = "store"
              /\ calls' = 1
      ]_vars

C1_Witness ==
    /\ pc = "section"
    /\ i = 1
    /\ calls = 1
    /\ Satisfies(returned, criteria)
    /\ business_plan = << [key |-> Name1, value |-> returned] >>

\* C2: if no text returned for a section satisfies its criteria, exactly 4
\* service calls are made for it and the plan entry for the section is the
\* text returned by the 4th call; the run goes on to the next section.
C2_ExhaustedKeepsFourthText ==
    (pc = "section" /\ i >= 1 /\ none_satisfied) =>
        /\ calls = 4
        /\ Len(business_plan) = i
        /\ business_plan[i] = [key |-> SectionNames[i], value |-> returned]

C2_Witness ==
    /\ pc = "section"
    /\ i >= 2
    /\ none_satisfied
    /\ calls = 4
    /\ ~last_raised
    /\ business_plan[i].value = returned
    /\ returned # <<>>

\* C3: the returned mapping has exactly the 8 fixed section names as keys in
\* the fixed order, whatever the validation outcomes and service failures;
\* at every intermediate point the partial mapping is a prefix of that order.
C3_PlanKeysFixedOrder ==
    /\ Len(business_plan) <= Len(SectionNames)
    /\ DictKeys(business_plan) = SubSeq(SectionNames, 1, Len(business_plan))
    /\ pc \in {"returned", "done"} => DictKeys(business_plan) = SectionNames

C3_Witness ==
    /\ pc = "returned"
    /\ Len(business_plan) = 8
    /\ \E a, b, c \in 1..8 :
          /\ business_plan[a].value = <<>>
          /\ Satisfies(business_plan[b].value, sections[b].value)
          /\ business_plan[c].value # <<>>
          /\ ~Satisfies(business_plan[c].value, sections[c].value)

\* C4: a failing service call yields the empty string for that attempt and
\* the loop goes on: when every call fails, each section gets 4 calls and the
\* plan is returned with all 8 sections, each with empty text.
C4_FailureYieldsEmptyAndContinues ==
    /\ (last_raised /\ calls > 0) => (returned = <<>> /\ current_section = <<>>)
    /\ (all_failed /\ pc = "store") => calls = 4
    /\ (all_failed /\ pc \in {"section", "returned"}) =>
          /\ Len(business_plan) = i
          /\ \A n \in 1..i : business_plan[n].value = <<>>
    /\ (all_failed /\ pc = "returned") => DictKeys(business_plan) = SectionNames

C4_Witness ==
    /\ pc = "returned"
    /\ all_failed
    /\ last_raised
    /\ calls = 4
    /\ Len(business_plan) = 8

\* the statuses of a validation result, as a set of <<criterion, status>>
FeedbackPairs(result) ==
    { <<result.feedback[n].key, result.feedback[n].value>> : n \in 1..Len(result.feedback) }

\* C5: validate_section marks a criterion "Present" exactly when it occurs
\* case-insensitively as a substring of the text and "Missing" otherwise, and
\* is_valid is true exactly when no criterion is marked "Missing".
C5_ValidateSection ==
    pc = "pure_validated" =>
        /\ FeedbackPairs(validation_result) =
              { << criteria[n],
                   IF OccursIgnoringCase(criteria[n], current_section)
                   THEN "Present" ELSE "Missing" >> : n \in 1..Len(criteria) }
        /\ validation_result.is_valid =
              (\A n \in 1..Len(validation_result.feedback) :
                  validation_result.feedback[n].value # "Missing")

C5_Witness ==
    /\ pc = "pure_validated"
    /\ Len(criteria) = 3
    /\ Len(validation_result.feedback) = 3
    /\ ~validation_result.is_valid
    /\ Cardinality({n \in 1..3 : validation_result.feedback[n].value = "Missing"}) = 1
    /\ \E n \in 1..3 :
          /\ validation_result.feedback[n].value = "Present"
          /\ ~contains(criteria[n], current_section)

\* position (0-based) of the first occurrence of sub in s, -1 when absent
IndexOf(sub, s) ==
    IF contains(sub, s)
    THEN CHOOSE p \in 0..(Len(s) - Len(sub)) :
            /\ SubSeq(s, p + 1, p + Len(sub)) = sub
            /\ \A q \in 0..(p - 1) : SubSeq(s, q + 1, q + Len(sub)) # sub
    ELSE 0 - 1

\* s.split(sep), for a non-empty sep
RECURSIVE split(_, _)
split(sep, s) ==
    IF IndexOf(sep, s) < 0 THEN << s >>
    ELSE << SubSeq(s, 1, IndexOf(sep, s)) >>
         \o split(sep, SubSeq(s, IndexOf(sep, s) + Len(sep) + 1, Len(s)))

\* the phrases a prompt lists on its "Missing criteria: " line
ListedMissing(p) ==
    IF IndexOf(MissingMarker, p) < 0 THEN <<>>
    ELSE LET rest == SubSeq(p, IndexOf(MissingMarker, p) + Len(MissingMarker) + 1, Len(p))
         IN  split(CommaSpace, SubSeq(rest, 1, IndexOf(Newline, rest)))

Range(f) ==
    { f[n] : n \in 1..Len(f) }

MarkedMissing(result) ==
    { result.feedback[n].key : n \in { m \in 1..Len(result.feedback) : result.feedback[m].value = "Missing" } }

MarkedPresent(result) ==
    { result.feedback[n].key : n \in { m \in 1..Len(result.feedback) : result.feedback[m].value = "Present" } }

PromptCarriesMissingAndText ==
    /\ \A m \in MarkedMissing(validation_result) : contains(m, prompt)
    /\ contains(current_section, prompt)
    /\ Range(ListedMissing(prompt)) = MarkedMissing(validation_result)
    /\ Range(ListedMissing(prompt)) \cap MarkedPresent(validation_result) = {}

\* C6 as stated: for every validation result, the prompt contains every
\* missing phrase and the full current text, and lists only missing phrases.
C6_Original ==
    pc = "pure_prompted" => PromptCarriesMissingAndText

\* C6 amended: for a validation result with is_valid = false the prompt
\* contains every missing phrase and the full current text verbatim and lists
\* under "Missing criteria" exactly the phrases marked "Missing"; for a result
\* with is_valid = true the prompt is "The section meets all criteria.".
C6_FeedbackPrompt ==
    pc = "pure_prompted" =>
        IF validation_result.is_valid
        THEN prompt = MeetsAllCriteria
        ELSE PromptCarriesMissingAndText

C6_Witness ==
    /\ pc = "pure_prompted"
    /\ ~validation_result.is_valid
    /\ Cardinality(MarkedMissing(validation_result)) = 2
    /\ MarkedPresent(validation_result) # {}
    /\ Len(current_section) = MaxLen
    /\ Len(ListedMissing(prompt)) = 2

\* C7: in a run with an empty credential the warning is shown and
\* generate_business_plan is not invoked, so no service call is made.
C7_NoCredentialNoGenerate ==
    [][ api_key' = <<>> =>
          /\ st_warning'
          /\ pc' = "idle"
          /\ calls' = 0
          /\ business_plan' = <<>>
          /\ status_text' = NoStatus
      ]_vars

C7_Witness ==
    /\ api_key = <<>>
    /\ st_warning
    /\ pc = "idle"

\* C8 as stated: every text returned by the service has been validated
\* before it is stored as the section's final text.
C8_Original ==
    pc = "store" => validated

\* the feedback prompt for section n (0-based) and a text, from the fixed table
ExpectedFeedbackPrompt(n, text) ==
    FeedbackHead \o SectionNames[n + 1] \o FeedbackMissing
    \o join(CommaSpace,
            SelectSeq(sections[n + 1].value, LAMBDA c : ~OccursIgnoringCase(c, text)))
    \o FeedbackCurrent \o text
    \o FeedbackRevise \o SectionNames[n + 1] \o FeedbackTail

\* the step is a fresh run of the script
NewRun ==
    pc \in {"idle", "done"}

\* C9: sections are processed strictly in order: a service call, validation
\* or status for a section happens only when every earlier section is stored
\* and no later one is; a stored entry is never rewritten during the run; and
\* a corrective prompt is built from the current section's name, criteria and
\* most recent text only.
C9_Sequential ==
    [][ /\ ~NewRun =>
              /\ i' >= i
              /\ \A n \in 1..Len(business_plan) :
                    /\ Len(business_plan') >= n
                    /\ business_plan'[n] = business_plan[n]
        /\ (calls' # calls /\ ~NewRun) =>
              /\ Len(business_plan) = i
              /\ i' = i
              /\ section_name' = SectionNames[i + 1]
              /\ ~DictHas(business_plan, section_name')
        /\ (status_text' # status_text /\ ~NewRun) =>
              /\ status_text'.section = SectionNames[Len(business_plan) + 1]
              /\ Len(business_plan') = Len(business_plan)
        /\ (validation_result' # validation_result /\ ~NewRun) =>
              Len(business_plan) = i
        /\ pc' = "regenerate" =>
              prompt' = ExpectedFeedbackPrompt(Len(business_plan'), returned')
        /\ pc = "store" =>
              /\ Len(business_plan') = Len(business_plan) + 1
              /\ business_plan'[i + 1] = [key |-> SectionNames[i + 1], value |-> returned]
      ]_vars

C9_Witness ==
    /\ pc = "regenerate"
    /\ i = 2
    /\ j = 1
    /\ Len(business_plan) = 2
    /\ returned # <<>>
    /\ business_plan[1].value # business_plan[2].value
    /\ contains(Name3, prompt)
    /\ contains(returned, prompt)

\* the text stored for the section just finished passes validation
StoredPasses ==
    Satisfies(business_plan[i].value, sections[i].value)

\* C10 as stated: exactly one terminal status is emitted per section,
\* "meets all criteria!" only if the stored text passes validation, and the
\* warning if and only if the stored text fails validation.
C10_Original ==
    (pc = "section" /\ i >= 1) =>
        /\ Len(emitted) = 1
        /\ emitted[1] \in {"meets", "Warning"}
        /\ emitted[1] = "meets" => StoredPasses
        /\ emitted[1] = "Warning" <=> ~StoredPasses

====
